---- MODULE Spec2Model ----
(***************************************************************************)
(* cargo-contemplate: the fetch-and-materialize pipeline of src/main.rs.   *)
(*                                                                         *)
(* One run: main builds a Context from the two arguments (try_from), then  *)
(* run() clones the template repository into a random staging path while   *)
(* two callbacks render progress, copies the template's package directory  *)
(* into the working directory and renames it to the destination name.      *)
(*                                                                         *)
(* The filesystem calls follow the libraries the program links: fs_extra's *)
(* dir::copy with default CopyOptions (merge into an existing directory,   *)
(* refuse to overwrite an existing file) and std::fs::rename on Unix       *)
(* (rename(2): a directory replaces an empty directory, fails on a file or *)
(* on a non-empty directory, and is a no-op when both names are the same   *)
(* entry).                                                                 *)
(***************************************************************************)
EXTENDS Integers, FiniteSets, Sequences, TLC

(***************************************************************************)
(* Bounds of the model.                                                    *)
(***************************************************************************)
\* object counts reported by a network event lie in 0..MaxObj
MaxObj == 2
\* file counts reported by a checkout event lie in 0..MaxFiles
MaxFiles == 1
\* the history counters (attempts, newlines) saturate here
MaxCount == 2

(***************************************************************************)
(* Program constants.                                                      *)
(***************************************************************************)
\* static URLS (main.rs:31-34): class -> (url, branch, package)
URLS ==
    [c \in {"phat-contract-with-sideprog", "phat-contract"} |->
        IF c = "phat-contract-with-sideprog"
        THEN [url     |-> "https://github.com/tenheadedlion/phat-contract-starter.git",
              branch  |-> "master",
              package |-> "log_server-a00c26e4ff2173713db9afca5a82aee3"]
        ELSE [url     |-> "https://github.com/tenheadedlion/phat-contract-starter.git",
              branch  |-> "plain-phat-contract",
              package |-> "erc20-497c0f607b393edb86f8da1bf053fb06"]]

\* enum Error (main.rs:36-44), plus "None" for "no error so far"
Error ==
    {"NoSuchClass", "CannotParseUrl", "FileSystemFault", "FileSystemRename",
     "FileSystemRemoveDir", "GitFault"}

(***************************************************************************)
(* Inputs of a run.                                                        *)
(***************************************************************************)
\* the (CLASS, DEST) pairs a run is started with: each key of the table
\* with a fresh destination name, a key with its own package name as the
\* destination, and a class that is no key
ArgsSamples ==
    {[class |-> "phat-contract-with-sideprog", dest |-> "myproj"],
     [class |-> "phat-contract", dest |-> "myproj"],
     [class |-> "phat-contract", dest |-> "erc20-497c0f607b393edb86f8da1bf053fb06"],
     [class |-> "no-such-template", dest |-> "myproj"]}

Classes == {a.class : a \in ArgsSamples}

DestNames == {a.dest : a \in ArgsSamples}

\* the 7 alphanumeric characters random_path draws
RandomTokens == {"aB3xK9q"}

\* the destination name of the second of two concurrent invocations
SecondDest == "myproj2"

\* names of entries of the working directory the run can touch or must not
Names == {URLS[c].package : c \in DOMAIN URLS} \cup DestNames \cup {SecondDest}

\* file names inside a directory, and what a file holds: "old" for a file
\* that was in the working directory before the run, "new" for a file of
\* the cloned repository
FileNames == {"a", "b"}

(***************************************************************************)
(* Filesystem entries: absent, a regular file, or a directory holding a    *)
(* set of <<file name, contents>> pairs.                                   *)
(***************************************************************************)
Absent == [kind |-> "absent", files |-> {}]

FileEntry == [kind |-> "file", files |-> {}]

DirEntry(fs) == [kind |-> "dir", files |-> fs]

FilesOf(names, data) == {<<n, data>> : n \in names}

FileNamesIn(entry) == {f[1] : f \in entry.files}

\* what a name of the working directory can be before the run: nothing, a
\* regular file, an empty directory, a directory holding one old file
PreEntries ==
    {Absent, FileEntry, DirEntry({}), DirEntry(FilesOf({"b"}, "old"))}

\* an entry of the working directory the run has no business with
Bystander == DirEntry(FilesOf({"a"}, "old"))

\* what the package directory of a cloned repository can be: git tracks no
\* empty directory, so a package directory holds at least one file; the
\* repository may also not have the directory at all
StagedPackages ==
    {Absent, DirEntry(FilesOf({"a"}, "new")), DirEntry(FilesOf({"a", "b"}, "new"))}

\* the staging path: not created, left half-written by a failed clone, or a
\* complete work tree with its .git directory and the package directory
NoTree == [status |-> "none", git |-> FALSE, package |-> Absent]

PartialTree == [status |-> "partial", git |-> TRUE, package |-> Absent]

WorkTree(p) == [status |-> "cloned", git |-> TRUE, package |-> p]

(***************************************************************************)
(* struct Context (main.rs:52-60) and struct State (main.rs:79-85).        *)
(***************************************************************************)
NoCtx ==
    [built |-> FALSE, url |-> "", tmp_path |-> <<>>, path |-> "", branch |-> "",
     package |-> "", current_dir |-> <<>>]

\* Option<Progress>: received_objects, total_objects, indexed_objects
NoProgress == [some |-> FALSE, received |-> 0, total |-> 0, indexed |-> 0]

SomeProgress(r, t, i) == [some |-> TRUE, received |-> r, total |-> t, indexed |-> i]

\* the path a checkout event carries; State.path is "None" until the first
\* checkout event and is only printed
CheckoutPaths == {"src/lib.rs"}

\* State { progress: None, total: 0, current: 0, path: None, newline: false }
InitialState ==
    [progress |-> NoProgress, total |-> 0, current |-> 0, path |-> "None",
     newline |-> FALSE]

\* the directory the runs of Spec are started in
HomeDir == <<"home", "user", "work">>

\* what the remote repository can have: the branches the table names, or
\* neither of them
RemoteBranchSets == {{URLS[c].branch : c \in DOMAIN URLS}, {"main"}}

\* the invocations of the two-run specification
RunIds == {"A", "B"}

\* an invocation that is not part of the behaviour
IdleRun ==
    [pc |-> "Idle", err |-> "None", package |-> "", dest |-> "", staging |-> NoTree]

NoRuns == [r \in RunIds |-> IdleRun]

\* the external calls of a run, in program order
StepNames == {"random_path", "current_dir", "clone", "copy", "rename", "remove_dir_all"}

\* a percentage no render has computed yet
NoPct == 0 - 1

VARIABLES
    class,        \* Args.class
    dest,         \* Args.dest
    pc,           \* where the run is
    err,          \* the Error the run ended with, or "None"
    ctx,          \* the Context
    state,        \* the State shared by the two callbacks
    wd,           \* the working directory: name -> entry
    wd0,          \* the working directory before the run
    staging,      \* what is at ctx.tmp_path
    network_pct,  \* the locals of the last completed print
    index_pct,
    co_pct,
    out,          \* the line the last completed print wrote
    newlines,     \* how many times print wrote the blank line (println!())
    deltaSeen,    \* some print has written the "Resolving deltas" line
    fault,        \* the panic a print ended with, or "none"
    attempts,     \* step -> how many times the run made that call
    result,       \* step -> "none" | "ok" | "fail"
    diag,         \* the run printed a filesystem error message
    start_dir,    \* the directory the process was started in
    remote_branches, \* the branches the remote repository has
    checked_out,  \* the branch the clone checked out, or "None"
    staged0,      \* what was at ctx.tmp_path when the clone returned Ok
    pending,      \* events stored in State that no completed print has shown
    runs          \* the concurrent invocations of the two-run specification

\* what no action of a single run changes: its environment and the
\* invocations of the two-run specification
envVars == <<start_dir, remote_branches, runs>>

vars ==
    <<class, dest, pc, err, ctx, state, wd, wd0, staging, network_pct,
      index_pct, co_pct, out, newlines, deltaSeen, fault, attempts, result, diag,
      start_dir, remote_branches, checked_out, staged0, pending, runs>>

Bump(n) == IF n < MaxCount THEN n + 1 ELSE n

(***************************************************************************)
(* The initial state: the arguments are parsed, nothing has run.  The      *)
(* working directory is arbitrary at the names the run will use (the       *)
(* template's package name and the destination name) and holds a           *)
(* bystander directory at every other name.                                *)
(***************************************************************************)
TouchedNames(cls, dst) ==
    {dst} \cup (IF cls \in DOMAIN URLS THEN {URLS[cls].package} ELSE {})

InitRun ==
    /\ \E a \in ArgsSamples : class = a.class /\ dest = a.dest
    /\ pc = "Start"
    /\ err = "None"
    /\ ctx = NoCtx
    /\ state = InitialState
    /\ wd \in {w \in [Names -> PreEntries \cup {Bystander}] :
                 \A n \in Names :
                    IF n \in TouchedNames(class, dest)
                    THEN w[n] \in PreEntries
                    ELSE w[n] = Bystander}
    /\ wd0 = wd
    /\ staging = NoTree
    /\ network_pct = NoPct
    /\ index_pct = NoPct
    /\ co_pct = NoPct
    /\ out = "none"
    /\ newlines = 0
    /\ deltaSeen = FALSE
    /\ fault = "none"
    /\ attempts = [s \in StepNames |-> 0]
    /\ result = [s \in StepNames |-> "none"]
    /\ diag = FALSE
    /\ remote_branches \in RemoteBranchSets
    \* a run whose branch the remote lacks never reaches the working
    \* directory: one working directory stands for all of them
    /\ (class \in DOMAIN URLS /\ URLS[class].branch \notin remote_branches) =>
          \A n \in TouchedNames(class, dest) : wd[n] = Absent
    /\ checked_out = "None"
    /\ staged0 = NoTree
    /\ pending = 0

\* one run, started in a directory of its own that holds the names of wd
Init ==
    /\ InitRun
    /\ start_dir = HomeDir
    /\ runs = NoRuns

(***************************************************************************)
(* fn random_path (main.rs:22-29): "/tmp" joined with the random token.    *)
(* An absolute path is the sequence of its components: <<>> is "/".        *)
(***************************************************************************)
random_path(tok) == <<"tmp", tok>>

\* env::current_dir() when it succeeds: the directory the process is in
CurrentDir == start_dir

(***************************************************************************)
(* impl TryFrom<Args> for Context (main.rs:62-77).  The fields of the      *)
(* struct expression are evaluated in source order, so random_path runs    *)
(* before env::current_dir, and both only in the Some arm.  calls is the   *)
(* set of external calls made.                                             *)
(***************************************************************************)
TryFromUneager(cls, dst, tok, cwdOk) ==
    \* a variant that builds the staging path and reads the working
    \* directory before it looks the class up
    IF cls \in DOMAIN URLS /\ cwdOk
    THEN [ok |-> TRUE, err |-> "None", calls |-> {"random_path", "current_dir"},
          ctx |-> [built |-> TRUE, url |-> URLS[cls].url, tmp_path |-> random_path(tok),
                   path |-> dst, branch |-> URLS[cls].branch,
                   package |-> URLS[cls].package, current_dir |-> CurrentDir]]
    ELSE [ok |-> FALSE,
          err |-> IF cwdOk THEN "NoSuchClass" ELSE "FileSystemFault",
          calls |-> {"random_path", "current_dir"}, ctx |-> NoCtx]

TryFromSwapped(cls, dst, tok, cwdOk) ==
    \* a variant that takes the branch and the package from the wrong
    \* components of the table entry
    IF cls \in DOMAIN URLS
    THEN IF cwdOk
         THEN [ok |-> TRUE, err |-> "None", calls |-> {"random_path", "current_dir"},
               ctx |-> [built |-> TRUE, url |-> URLS[cls].url,
                        tmp_path |-> random_path(tok), path |-> dst,
                        branch |-> URLS[cls].package, package |-> URLS[cls].branch,
                        current_dir |-> CurrentDir]]
         ELSE [ok |-> FALSE, err |-> "FileSystemFault",
               calls |-> {"random_path", "current_dir"}, ctx |-> NoCtx]
    ELSE [ok |-> FALSE, err |-> "NoSuchClass", calls |-> {}, ctx |-> NoCtx]

try_from(cls, dst, tok, cwdOk) ==
    IF cls \in DOMAIN URLS
    THEN IF cwdOk
         THEN [ok |-> TRUE, err |-> "None", calls |-> {"random_path", "current_dir"},
               ctx |-> [built |-> TRUE, url |-> URLS[cls].url,
                        tmp_path |-> random_path(tok), path |-> dst,
                        branch |-> URLS[cls].branch, package |-> URLS[cls].package,
                        current_dir |-> CurrentDir]]
         ELSE [ok |-> FALSE, err |-> "FileSystemFault",
               calls |-> {"random_path", "current_dir"}, ctx |-> NoCtx]
    ELSE [ok |-> FALSE, err |-> "NoSuchClass", calls |-> {}, ctx |-> NoCtx]

Called(att, calls) == [s \in StepNames |-> IF s \in calls THEN Bump(att[s]) ELSE att[s]]

(***************************************************************************)
(* main (main.rs:217-218): Context::try_from(args).unwrap().  An Err ends  *)
(* the run in the panic of unwrap; the run is then in Error with that      *)
(* error kind.                                                             *)
(***************************************************************************)
Resolve ==
    /\ pc = "Start"
    /\ \E tok \in RandomTokens, cwdOk \in BOOLEAN :
          LET r == try_from(class, dest, tok, cwdOk) IN
            /\ pc' = IF r.ok THEN "Resolved" ELSE "Error"
            /\ err' = r.err
            /\ ctx' = r.ctx
            /\ attempts' = Called(attempts, r.calls)
            /\ result' = [s \in StepNames |->
                            IF s \in r.calls
                            THEN (IF s = "current_dir" /\ ~r.ok THEN "fail" ELSE "ok")
                            ELSE result[s]]
    /\ UNCHANGED <<class, dest, state, wd, wd0, staging, network_pct, index_pct,
                   co_pct, out, newlines, deltaSeen, fault, diag,
                   envVars, checked_out, staged0, pending>>

(***************************************************************************)
(* fn print (main.rs:87-129).  The result says how the call ended (fault), *)
(* the State it leaves, the three percentages, which line it wrote and     *)
(* whether it wrote the blank line first.  progress.unwrap() panics on     *)
(* None, and the two divisions by total_objects panic on 0; co_pct alone   *)
(* is guarded.  Integer division truncates.  received_bytes and the delta  *)
(* counts are only printed and are left out.                               *)
(***************************************************************************)
PctUnscaled(part, whole) == 100 * part

Pct(part, whole) == (100 * part) \div whole

Faulted(st, why) ==
    [fault |-> why, state |-> st, network_pct |-> NoPct, index_pct |-> NoPct,
     co_pct |-> NoPct, line |-> "none", blank |-> FALSE]

PrintNoLatch(st) ==
    \* a variant that never records that the blank line was written
    IF ~st.progress.some THEN Faulted(st, "unwrap_none")
    ELSE IF st.progress.total = 0 THEN Faulted(st, "divide_by_zero")
    ELSE [fault |-> "none", state |-> st,
          network_pct |-> Pct(st.progress.received, st.progress.total),
          index_pct |-> Pct(st.progress.indexed, st.progress.total),
          co_pct |-> IF st.total > 0 THEN Pct(st.current, st.total) ELSE 0,
          line |-> IF st.progress.received = st.progress.total THEN "delta" ELSE "status",
          blank |-> st.progress.received = st.progress.total]

print(st) ==
    IF ~st.progress.some THEN Faulted(st, "unwrap_none")
    ELSE IF st.progress.total = 0 THEN Faulted(st, "divide_by_zero")
    ELSE LET stats == st.progress
             done == stats.received = stats.total
         IN [fault |-> "none",
             state |-> IF done /\ ~st.newline THEN [st EXCEPT !.newline = TRUE] ELSE st,
             network_pct |-> Pct(stats.received, stats.total),
             index_pct |-> Pct(stats.indexed, stats.total),
             co_pct |-> IF st.total > 0 THEN Pct(st.current, st.total) ELSE 0,
             line |-> IF done THEN "delta" ELSE "status",
             blank |-> done /\ ~st.newline]

(***************************************************************************)
(* A callback's effect: the State it stored, then print.  A panic inside a *)
(* callback ends the clone and the run: git2 stops calling the callbacks   *)
(* and resumes the panic when the clone call returns, so nothing after the *)
(* clone runs.  The repository was initialised at the staging path before  *)
(* the first callback, so a panicked run leaves it half-written.           *)
(***************************************************************************)
Render(st) ==
    LET r == print(st) IN
      /\ state' = r.state
      /\ fault' = r.fault
      /\ pending' = IF r.fault = "none" THEN 0 ELSE 1
      /\ IF r.fault = "none"
         THEN /\ network_pct' = r.network_pct
              /\ index_pct' = r.index_pct
              /\ co_pct' = r.co_pct
              /\ out' = r.line
              /\ newlines' = IF r.blank THEN Bump(newlines) ELSE newlines
              /\ deltaSeen' = (deltaSeen \/ r.line = "delta")
              /\ UNCHANGED <<pc, staging, result>>
         ELSE /\ pc' = "Panicked"
              /\ staging' = PartialTree
              /\ result' = [result EXCEPT !["clone"] = "fail"]
              /\ UNCHANGED <<network_pct, index_pct, co_pct, out, newlines, deltaSeen>>
      /\ UNCHANGED <<class, dest, err, ctx, wd, wd0, attempts, diag,
                   envVars,
                  checked_out, staged0>>

\* run (main.rs:132-138, 156-163): the State is built and the clone starts
BeginClone ==
    /\ pc = "Resolved"
    /\ pc' = "Fetching"
    /\ state' = InitialState
    /\ attempts' = Called(attempts, {"clone"})
    /\ UNCHANGED <<class, dest, err, ctx, wd, wd0, staging, network_pct, index_pct,
                   co_pct, out, newlines, deltaSeen, fault, result, diag,
                   envVars, checked_out, staged0, pending>>

\* cb.transfer_progress (main.rs:140-145)
TransferProgress ==
    /\ pc = "Fetching"
    /\ \E r \in 0..MaxObj, t \in 0..MaxObj, i \in 0..MaxObj :
          Render([state EXCEPT !.progress = SomeProgress(r, t, i)])

\* co.progress (main.rs:148-154)
CheckoutProgress ==
    /\ pc = "Fetching"
    /\ \E path \in CheckoutPaths, cur \in 0..MaxFiles, total \in 0..MaxFiles :
          Render([state EXCEPT !.path = path, !.current = cur, !.total = total])

CloneOkDefaultBranch ==
    \* a variant without .branch(&ctx.branch): the clone checks out whatever
    \* the remote's HEAD names, whether or not the remote has ctx.branch
    /\ pc = "Fetching"
    /\ pc' = "Staged"
    /\ \E p \in StagedPackages : staging' = WorkTree(p)
    /\ staged0' = staging'
    /\ checked_out' = "HEAD"
    /\ result' = [result EXCEPT !["clone"] = "ok"]
    /\ UNCHANGED <<class, dest, err, ctx, state, wd, wd0, network_pct, index_pct,
                   co_pct, out, newlines, deltaSeen, fault, attempts, diag,
                   envVars, pending>>

\* RepoBuilder::clone returned Ok (main.rs:159-164): with .branch(b) the
\* clone succeeds only if the remote has branch b, and checks out b
CloneOk ==
    /\ pc = "Fetching"
    /\ ctx.branch \in remote_branches
    /\ pc' = "Staged"
    /\ \E p \in StagedPackages : staging' = WorkTree(p)
    /\ staged0' = staging'
    /\ checked_out' = ctx.branch
    /\ result' = [result EXCEPT !["clone"] = "ok"]
    /\ UNCHANGED <<class, dest, err, ctx, state, wd, wd0, network_pct, index_pct,
                   co_pct, out, newlines, deltaSeen, fault, attempts, diag,
                   envVars, pending>>

\* RepoBuilder::clone returned Err: map_err(|_| Error::GitFault)? (main.rs:164)
CloneFail ==
    /\ pc = "Fetching"
    /\ pc' = "Error"
    /\ err' = "GitFault"
    /\ staging' \in {NoTree, PartialTree}
    /\ result' = [result EXCEPT !["clone"] = "fail"]
    /\ UNCHANGED <<class, dest, ctx, state, wd, wd0, network_pct, index_pct,
                   co_pct, out, newlines, deltaSeen, fault, attempts, diag,
                   envVars, checked_out, staged0, pending>>

(***************************************************************************)
(* fs_extra::dir::copy(from, to, &CopyOptions::new()) with to an existing  *)
(* directory: the target is to/<last component of from>.  The call fails   *)
(* when from is no directory; it creates the target directory unless       *)
(* something of that name exists; it then copies the files one by one and  *)
(* stops with an error at the first file that already exists in the target *)
(* (overwrite and skip_exist are false), at the first file it cannot write *)
(* (the target name is a regular file) or at any I/O error, leaving what   *)
(* it has copied so far.  The order of the files is the directory's.       *)
(* The result is the set of possible [ok, fs] outcomes.                    *)
(***************************************************************************)
CopyOutcomes(from, fs, name) ==
    IF from.kind # "dir" \/ fs[name].kind = "file"
    THEN {[ok |-> FALSE, fs |-> fs]}
    ELSE LET free == {f \in from.files : f[1] \notin FileNamesIn(fs[name])} IN
           {[ok |-> (copied = from.files),
             fs |-> [fs EXCEPT ![name] = DirEntry(fs[name].files \cup copied)]] :
                copied \in SUBSET free}
           \cup {[ok |-> FALSE, fs |-> fs]}

(***************************************************************************)
(* std::fs::rename(from, to) on Unix, both names in the same directory:    *)
(* rename(2).  It fails when from does not exist; it does nothing when     *)
(* from and to are the same entry; it moves from to an absent to; a        *)
(* directory replaces an empty directory and fails on a file (ENOTDIR) or  *)
(* on a non-empty directory (ENOTEMPTY); a file replaces a file and fails  *)
(* on a directory (EISDIR).  Any call can also fail with an I/O error,     *)
(* which leaves both names as they were.                                   *)
(***************************************************************************)
RenameOutcomes(fs, from, to) ==
    {[ok |-> FALSE, fs |-> fs]}
    \cup
    IF fs[from].kind = "absent" THEN {}
    ELSE IF from = to THEN {[ok |-> TRUE, fs |-> fs]}
    ELSE IF \/ fs[to].kind = "absent"
            \/ fs[from].kind = "dir" /\ fs[to].kind = "dir" /\ fs[to].files = {}
            \/ fs[from].kind = "file" /\ fs[to].kind = "file"
         THEN {[ok |-> TRUE, fs |-> [fs EXCEPT ![to] = fs[from], ![from] = Absent]]}
         ELSE {}

(***************************************************************************)
(* run (main.rs:166-176): copy <tmp_path>/<package> into current_dir; an   *)
(* error is printed and becomes FileSystemFault.                           *)
(***************************************************************************)
CopyAfterFailedClone ==
    \* a variant of the copy step that runs although the clone failed
    /\ pc = "Staged" \/ (pc = "Error" /\ err = "GitFault")
    /\ \E o \in CopyOutcomes(staging.package, wd, ctx.package) :
          /\ wd' = o.fs
          /\ pc' = IF o.ok THEN "Copied" ELSE "Error"
          /\ err' = IF o.ok THEN err ELSE "FileSystemFault"
          /\ diag' = (diag \/ ~o.ok)
          /\ result' = [result EXCEPT !["copy"] = IF o.ok THEN "ok" ELSE "fail"]
    /\ attempts' = Called(attempts, {"copy"})
    /\ UNCHANGED <<class, dest, ctx, state, wd0, staging, network_pct, index_pct,
                   co_pct, out, newlines, deltaSeen, fault,
                   envVars, checked_out, staged0, pending>>

CopyMovingPackage ==
    \* a variant of the copy step that moves the package directory out of
    \* the staging path instead of copying it
    /\ pc = "Staged"
    /\ \E o \in CopyOutcomes(staging.package, wd, ctx.package) :
          /\ wd' = o.fs
          /\ pc' = IF o.ok THEN "Copied" ELSE "Error"
          /\ err' = IF o.ok THEN err ELSE "FileSystemFault"
          /\ diag' = (diag \/ ~o.ok)
          /\ result' = [result EXCEPT !["copy"] = IF o.ok THEN "ok" ELSE "fail"]
          /\ staging' = IF o.ok THEN [staging EXCEPT !.package = Absent] ELSE staging
    /\ attempts' = Called(attempts, {"copy"})
    /\ UNCHANGED <<class, dest, ctx, state, wd0, network_pct, index_pct,
                   co_pct, out, newlines, deltaSeen, fault,
                   envVars, checked_out, staged0, pending>>

Copy ==
    /\ pc = "Staged"
    /\ \E o \in CopyOutcomes(staging.package, wd, ctx.package) :
          /\ wd' = o.fs
          /\ pc' = IF o.ok THEN "Copied" ELSE "Error"
          /\ err' = IF o.ok THEN err ELSE "FileSystemFault"
          /\ diag' = (diag \/ ~o.ok)
          /\ result' = [result EXCEPT !["copy"] = IF o.ok THEN "ok" ELSE "fail"]
    /\ attempts' = Called(attempts, {"copy"})
    /\ UNCHANGED <<class, dest, ctx, state, wd0, staging, network_pct, index_pct,
                   co_pct, out, newlines, deltaSeen, fault,
                   envVars, checked_out, staged0, pending>>

(***************************************************************************)
(* run (main.rs:178-188): rename <package> to <path>, both relative to the *)
(* working directory; an error is printed and becomes FileSystemRename.    *)
(* The removal of <path>/.git is commented out (main.rs:183-186), so Ok(()) *)
(* follows the rename directly.                                            *)
(***************************************************************************)
RenameUndoingCopy ==
    \* a variant of the rename step that removes the copied entry when the
    \* rename fails
    /\ pc = "Copied"
    /\ \E o \in RenameOutcomes(wd, ctx.package, ctx.path) :
          /\ wd' = IF o.ok THEN o.fs ELSE [wd EXCEPT ![ctx.package] = Absent]
          /\ pc' = IF o.ok THEN "Done" ELSE "Error"
          /\ err' = IF o.ok THEN err ELSE "FileSystemRename"
          /\ diag' = (diag \/ ~o.ok)
          /\ result' = [result EXCEPT !["rename"] = IF o.ok THEN "ok" ELSE "fail"]
    /\ attempts' = Called(attempts, {"rename"})
    /\ UNCHANGED <<class, dest, ctx, state, wd0, staging, network_pct, index_pct,
                   co_pct, out, newlines, deltaSeen, fault,
                   envVars, checked_out, staged0, pending>>

Rename ==
    /\ pc = "Copied"
    /\ \E o \in RenameOutcomes(wd, ctx.package, ctx.path) :
          /\ wd' = o.fs
          /\ pc' = IF o.ok THEN "Done" ELSE "Error"
          /\ err' = IF o.ok THEN err ELSE "FileSystemRename"
          /\ diag' = (diag \/ ~o.ok)
          /\ result' = [result EXCEPT !["rename"] = IF o.ok THEN "ok" ELSE "fail"]
    /\ attempts' = Called(attempts, {"rename"})
    /\ UNCHANGED <<class, dest, ctx, state, wd0, staging, network_pct, index_pct,
                   co_pct, out, newlines, deltaSeen, fault,
                   envVars, checked_out, staged0, pending>>

Next ==
    \/ Resolve
    \/ BeginClone
    \/ TransferProgress
    \/ CheckoutProgress
    \/ CloneOk
    \/ CloneFail
    \/ Copy
    \/ Rename

Spec == Init /\ [][Next]_vars

TypeOK ==
    /\ class \in Classes
    /\ dest \in DestNames
    /\ pc \in {"Start", "Resolved", "Fetching", "Staged", "Copied", "Done", "Error",
               "Panicked"}
    /\ err \in Error \cup {"None"}
    /\ fault \in {"none", "unwrap_none", "divide_by_zero"}
    /\ out \in {"none", "status", "delta"}
    /\ newlines \in 0..MaxCount
    /\ \A s \in StepNames : attempts[s] \in 0..MaxCount
    /\ \A n \in Names : wd[n].kind \in {"absent", "file", "dir"}

(***************************************************************************)
(* Properties.                                                             *)
(***************************************************************************)
KnownClass == class \in DOMAIN URLS

NoStepTaken == \A s \in StepNames : attempts[s] = 0

\* C1: for a class that is no key of URLS, building the Context fails with
\* NoSuchClass, and the run allocates no staging path, does not read the
\* working directory and performs no clone, copy or rename.
C1_UnknownClassFailsClean ==
    (~KnownClass /\ pc # "Start") =>
        /\ pc = "Error"
        /\ err = "NoSuchClass"
        /\ ~ctx.built
        /\ NoStepTaken
        /\ staging = NoTree
        /\ wd = wd0

C1_Witness == ~KnownClass /\ pc = "Error" /\ err = "NoSuchClass"

\* C2: when the destination name exists in the working directory before
\* the copy starts (as a file, an empty or a non-empty directory), the run
\* does not succeed, it ends in FileSystemFault or FileSystemRename once
\* the copy and rename have been tried, and the entry stays as it was.
C2_ExistingDestinationRefused ==
    (wd0[dest].kind # "absent") =>
        /\ pc # "Done"
        /\ wd[dest] = wd0[dest]
        /\ (pc = "Error" /\ attempts["copy"] > 0) =>
              err \in {"FileSystemFault", "FileSystemRename"}

\* C3: when the latest network event has total_objects = 0, the render
\* ends without a fault and computes network_pct = 0 and index_pct = 0.
C3_ZeroTotalRendersZero ==
    (state.progress.some /\ state.progress.total = 0) =>
        /\ fault = "none"
        /\ network_pct = 0
        /\ index_pct = 0

\* C4: after events with received <= total, indexed <= total and
\* current <= total files, the percentages of a completed render lie in
\* 0..100, and co_pct is 0 when the file total is 0.
C4_PercentagesInRange ==
    (/\ fault = "none"
     /\ network_pct # NoPct
     /\ state.progress.received <= state.progress.total
     /\ state.progress.indexed <= state.progress.total
     /\ state.current <= state.total) =>
        /\ network_pct \in 0..100
        /\ index_pct \in 0..100
        /\ co_pct \in 0..100
        /\ state.total = 0 => co_pct = 0

C4_Witness ==
    /\ fault = "none"
    /\ state.progress.received < state.progress.total
    /\ state.progress.indexed = state.progress.total
    /\ network_pct = 50
    /\ index_pct = 100
    /\ state.current = state.total
    /\ co_pct = 100

\* C5: the blank line that ends phase one is written at most once in a
\* run, and whenever the "Resolving deltas" line has been written the blank
\* line has been written exactly once before it.
C5_OneBlankLineBeforeDeltas ==
    /\ newlines <= 1
    /\ deltaSeen => (newlines = 1 /\ state.newline)
    /\ newlines = 1 => deltaSeen

C5_Witness ==
    /\ deltaSeen
    /\ newlines = 1
    /\ out = "delta"
    /\ state.path # "None"
    /\ state.progress.indexed > 0

\* C6: once a render has written the "Resolving deltas" line, no later
\* render of the run writes the net/idx/chk status line.
C6_NeverBackToPhaseOne == deltaSeen => out # "status"

\* C7: the run is linear: each external call is made at most once; the
\* clone starts only with a built Context, the copy only after the clone
\* returned Ok, the rename only after the copy returned Ok, Done only after
\* the rename returned Ok; a failed step leaves the run in Error (or in the
\* panic of a callback) with no later step taken.
C7_LinearSingleAttempt ==
    /\ \A s \in StepNames : attempts[s] <= 1
    /\ attempts["clone"] > 0 => (ctx.built /\ result["current_dir"] = "ok")
    /\ attempts["copy"] > 0 => result["clone"] = "ok"
    /\ attempts["rename"] > 0 => result["copy"] = "ok"
    /\ pc = "Resolved" => (ctx.built /\ attempts["clone"] = 0)
    /\ pc = "Fetching" => (attempts["clone"] = 1 /\ result["clone"] = "none")
    /\ pc = "Staged" => (result["clone"] = "ok" /\ attempts["copy"] = 0)
    /\ pc = "Copied" => (result["copy"] = "ok" /\ attempts["rename"] = 0)
    /\ pc = "Done" => result["rename"] = "ok"
    /\ (\E s \in StepNames : result[s] = "fail") => pc \in {"Error", "Panicked"}
    /\ pc = "Error" <=> err # "None"
    /\ pc = "Panicked" <=> fault # "none"

C7_Witness ==
    /\ pc = "Done"
    /\ \A s \in {"random_path", "current_dir", "clone", "copy", "rename"} :
          attempts[s] = 1 /\ result[s] = "ok"

\* C8: a failed copy gives FileSystemFault and the rename is not tried; a
\* failed rename gives FileSystemRename and the copied directory is still
\* in the working directory under the package name; a failed removal of
\* the metadata directory gives FileSystemRemoveDir and the destination is
\* still in place.
C8_FailureKindsNoRollback ==
    /\ result["copy"] = "fail" =>
          (pc = "Error" /\ err = "FileSystemFault" /\ attempts["rename"] = 0)
    /\ result["rename"] = "fail" =>
          /\ pc = "Error"
          /\ err = "FileSystemRename"
          /\ wd[ctx.package].kind = "dir"
          /\ staging.package.files \subseteq wd[ctx.package].files
    /\ result["remove_dir_all"] = "fail" =>
          (pc = "Error" /\ err = "FileSystemRemoveDir" /\ wd[dest].kind = "dir")
    /\ err = "FileSystemRename" => result["rename"] = "fail"
    /\ err = "FileSystemRemoveDir" => result["remove_dir_all"] = "fail"

C8_Witness ==
    /\ result["rename"] = "fail"
    /\ err = "FileSystemRename"
    /\ wd0[ctx.package] = Absent
    /\ wd[ctx.package] = staging.package
    /\ wd[dest] = wd0[dest]

\* C9: after a successful run the working directory differs from the one
\* before the run by exactly one new directory named dest; every other
\* name holds what it held before.
C9_ExactlyOneNewDirectory ==
    pc = "Done" =>
        /\ wd0[dest] = Absent
        /\ wd[dest].kind = "dir"
        /\ \A n \in Names \ {dest} : wd[n] = wd0[n]

\* C10: after a successful run the destination directory holds exactly the
\* files of the package directory of the cloned tree.
C10_DestinationEqualsPackage ==
    pc = "Done" => wd[dest] = staging.package

\* C11 (whole-tree mode) has no case in this program: every entry of URLS
\* names a package, Context.package is a String, and the removal of
\* <path>/.git is commented out, so no run copies a whole tree.

(***************************************************************************)
(* Context building from any directory: try_from alone, for every          *)
(* directory the process can be started in.  (The working-directory        *)
(* entries of wd are those of HomeDir, so the later steps are left to      *)
(* Spec.)                                                                  *)
(***************************************************************************)
\* two project directories, the temporary directory itself, and a
\* directory under the temporary directory
WorkingDirs == {HomeDir, <<"srv", "build">>, <<"tmp">>, <<"tmp", "work">>}

InitAnyDir ==
    /\ InitRun
    /\ start_dir \in WorkingDirs
    /\ runs = NoRuns

NextContext == Resolve

SpecAnyDir == InitAnyDir /\ [][NextContext]_vars

\* p is q or an ancestor of q
IsPrefix(p, q) == Len(p) <= Len(q) /\ SubSeq(q, 1, Len(p)) = p

\* equal, ancestor or descendant
Related(p, q) == IsPrefix(p, q) \/ IsPrefix(q, p)

\* where rename puts the result: ctx.path relative to the working directory
DestinationPath(c) == c.current_dir \o <<c.path>>

\* C12: in every Context the staging path is not equal to, not an ancestor
\* of and not a descendant of the working directory or of the destination
\* path.
C12_StagingPathIsolated ==
    ctx.built =>
        /\ ~Related(ctx.tmp_path, ctx.current_dir)
        /\ ~Related(ctx.tmp_path, DestinationPath(ctx))

\* C13: a run that ends in a filesystem error (FileSystemFault from the
\* working directory or the copy, FileSystemRename, FileSystemRemoveDir)
\* has printed the underlying error message, and a run that ends in
\* NoSuchClass or GitFault has printed none.
C13_DiagnosticForFilesystemErrorsOnly ==
    pc = "Error" =>
        /\ err \in {"FileSystemFault", "FileSystemRename", "FileSystemRemoveDir"} => diag
        /\ err \in {"NoSuchClass", "GitFault"} => ~diag

(***************************************************************************)
(* Two invocations in the same working directory.  Each is a process of    *)
(* its own: its Context, State and staging path are private, and the       *)
(* callbacks touch only the private State, so an invocation is reduced to  *)
(* the three calls of run() that reach the filesystem; they act on the     *)
(* shared wd through the same CopyOutcomes and RenameOutcomes.  The two    *)
(* staging paths are distinct (different random tokens), and so are the    *)
(* destination names.  The environment injects no I/O error here, so that  *)
(* an invocation's outcome can be compared with its outcome when alone.    *)
(***************************************************************************)
\* the templates of the two invocations: the same one, or different ones
TwoRunClasses ==
    {[A |-> "phat-contract", B |-> "phat-contract"],
     [A |-> "phat-contract", B |-> "phat-contract-with-sideprog"]}

TwoRunDests == [A |-> "myproj", B |-> SecondDest]

\* every variable of the single run: constant in the two-run specification
singleRunVars ==
    <<class, dest, pc, err, ctx, state, wd0, staging, network_pct, index_pct,
      co_pct, out, newlines, deltaSeen, fault, attempts, result, diag,
      start_dir, remote_branches, checked_out, staged0, pending>>

InitTwoRuns ==
    /\ class = "phat-contract"
    /\ dest = "myproj"
    /\ pc = "Start"
    /\ err = "None"
    /\ ctx = NoCtx
    /\ state = InitialState
    /\ staging = NoTree
    /\ network_pct = NoPct
    /\ index_pct = NoPct
    /\ co_pct = NoPct
    /\ out = "none"
    /\ newlines = 0
    /\ deltaSeen = FALSE
    /\ fault = "none"
    /\ attempts = [s \in StepNames |-> 0]
    /\ result = [s \in StepNames |-> "none"]
    /\ diag = FALSE
    /\ start_dir = HomeDir
    /\ remote_branches = {URLS[c].branch : c \in DOMAIN URLS}
    /\ checked_out = "None"
    /\ staged0 = NoTree
    /\ pending = 0
    /\ \E cs \in TwoRunClasses :
          /\ runs = [r \in RunIds |->
                       [pc |-> "Resolved", err |-> "None",
                        package |-> URLS[cs[r]].package, dest |-> TwoRunDests[r],
                        staging |-> NoTree]]
          /\ wd \in {w \in [Names -> PreEntries \cup {Bystander}] :
                       \A n \in Names :
                          IF n \in {URLS[cs[r]].package : r \in RunIds}
                                   \cup {TwoRunDests[r] : r \in RunIds}
                          THEN w[n] \in PreEntries
                          ELSE w[n] = Bystander}
    /\ wd0 = wd

\* the outcomes of a filesystem call when no I/O error is injected: it
\* succeeds whenever it can
EnvOk(outs) == IF \E o \in outs : o.ok THEN {o \in outs : o.ok} ELSE outs

\* RepoBuilder::clone of invocation r (main.rs:159-164)
CloneRun(r) ==
    /\ runs[r].pc = "Resolved"
    /\ \/ \E p \in StagedPackages :
             runs' = [runs EXCEPT ![r].pc = "Staged", ![r].staging = WorkTree(p)]
       \/ runs' = [runs EXCEPT ![r].pc = "Error", ![r].err = "GitFault",
                                ![r].staging = PartialTree]
    /\ UNCHANGED <<wd, singleRunVars>>

\* fs_extra::dir::copy of invocation r (main.rs:168-176)
CopyRun(r) ==
    /\ runs[r].pc = "Staged"
    /\ \E o \in EnvOk(CopyOutcomes(runs[r].staging.package, wd, runs[r].package)) :
          /\ wd' = o.fs
          /\ runs' = [runs EXCEPT
                        ![r].pc = IF o.ok THEN "Copied" ELSE "Error",
                        ![r].err = IF o.ok THEN "None" ELSE "FileSystemFault"]
    /\ UNCHANGED singleRunVars

\* std::fs::rename of invocation r (main.rs:178-188)
RenameRun(r) ==
    /\ runs[r].pc = "Copied"
    /\ \E o \in EnvOk(RenameOutcomes(wd, runs[r].package, runs[r].dest)) :
          /\ wd' = o.fs
          /\ runs' = [runs EXCEPT
                        ![r].pc = IF o.ok THEN "Done" ELSE "Error",
                        ![r].err = IF o.ok THEN "None" ELSE "FileSystemRename"]
    /\ UNCHANGED singleRunVars

NextTwoRuns ==
    \/ \E r \in RunIds : CloneRun(r)
    \/ \E r \in RunIds : CopyRun(r)
    \/ \E r \in RunIds : RenameRun(r)

SpecTwoRuns == InitTwoRuns /\ [][NextTwoRuns]_vars

\* what invocation r, with the tree it cloned, ends with when it runs alone
\* from the initial working directory: its final pc, its error and the
\* entry at its destination name
AloneResults(r) ==
    LET copies == EnvOk(CopyOutcomes(runs[r].staging.package, wd0, runs[r].package))
    IN UNION {
         IF c.ok
         THEN {[pc |-> IF n.ok THEN "Done" ELSE "Error",
                err |-> IF n.ok THEN "None" ELSE "FileSystemRename",
                entry |-> n.fs[runs[r].dest]] :
                  n \in EnvOk(RenameOutcomes(c.fs, runs[r].package, runs[r].dest))}
         ELSE {[pc |-> "Error", err |-> "FileSystemFault", entry |-> c.fs[runs[r].dest]]}
         : c \in copies}

\* C14: two invocations running concurrently in one working directory,
\* with distinct staging paths and distinct destination names, each end as
\* they would alone (same outcome, same destination directory), under
\* every interleaving of their clone, copy and rename steps.
C14_ConcurrentRunsAsAlone ==
    \A r \in RunIds :
        (runs[r].pc \in {"Done", "Error"} /\ runs[r].staging.status = "cloned") =>
            [pc |-> runs[r].pc, err |-> runs[r].err, entry |-> wd[runs[r].dest]]
                \in AloneResults(r)

\* C15: for a class that is a key of URLS, the Context's url, branch and
\* package are the three components of that key's entry, from the moment
\* the Context is built to the end of the run.
C15_ContextMatchesTable ==
    KnownClass =>
        /\ (pc # "Start" /\ result["current_dir"] = "ok") => ctx.built
        /\ ctx.built =>
              /\ ctx.url = URLS[class].url
              /\ ctx.branch = URLS[class].branch
              /\ ctx.package = URLS[class].package

C15_Witness ==
    /\ pc = "Done"
    /\ class = "phat-contract"
    /\ ctx.url = "https://github.com/tenheadedlion/phat-contract-starter.git"
    /\ ctx.branch = "plain-phat-contract"
    /\ ctx.package = "erc20-497c0f607b393edb86f8da1bf053fb06"

\* C16: a clone that returns Ok has checked out the branch of the table
\* entry; when the remote does not have that branch the clone does not
\* return Ok, the run ends in GitFault and neither copy nor rename is
\* tried.  (Every entry of URLS names a branch and run() always passes it,
\* so the default-branch case of the claim does not arise.)
C16_TableBranchOrGitFault ==
    /\ result["clone"] = "ok" =>
          (checked_out = ctx.branch /\ ctx.branch \in remote_branches)
    /\ (ctx.built /\ ctx.branch \notin remote_branches) =>
          /\ result["clone"] # "ok"
          /\ attempts["copy"] = 0
          /\ attempts["rename"] = 0
          /\ wd = wd0
          /\ pc = "Error" => err = "GitFault"

C16_Witness ==
    /\ ctx.built
    /\ ctx.branch \notin remote_branches
    /\ state.progress.some
    /\ pc = "Error"
    /\ err = "GitFault"

\* C17: every network or checkout event stored in State has been shown by
\* a print that ran to its flush before the next event is taken.
C17_EveryEventRenderedAndFlushed == pending = 0

\* C18: a render completes without a fault in every order of the events;
\* stated for the order the claim names: while no network event has been
\* recorded (State.progress is None), no render has panicked.
C18_RenderWithoutSnapshotCompletes == ~state.progress.some => fault = "none"

\* C19: once the clone has returned Ok, what is at the staging path stays
\* what the clone left there, to the end of the run (Done, or a copy or
\* rename error).
C19_StagedTreeUntouched ==
    result["clone"] = "ok" => (staging.status = "cloned" /\ staging = staged0)

C19_Witness ==
    /\ pc = "Done"
    /\ staging.package.kind = "dir"
    /\ staging = staged0
    /\ wd[dest] = staging.package

====
